---- MODULE Spec2Model ----
(***************************************************************************)
(* Model of the client-side encryption library of the photo vault          *)
(* (src/src/lib/encryption.ts), of a bench that calls its functions        *)
(* (Spec, DirectSpec), and of the application around it: the encryption    *)
(* session of EncryptionProvider and EncryptionSetup (AppSpec) and the     *)
(* handlers that hand data to the stores (StoreSpec).                      *)
(*                                                                         *)
(* Bytes are naturals below 256, byte arrays and ArrayBuffers are          *)
(* sequences of bytes, JavaScript strings are sequences of code units.     *)
(*                                                                         *)
(* The Web Crypto primitives the library calls (PBKDF2, AES-GCM) are not   *)
(* code of the repository.  They are modelled as ideal primitives with the *)
(* input/output shapes of the Web Crypto specification:                    *)
(*   - PBKDF2 yields 32 bytes that are determined by, and determine, the   *)
(*     password and the salt (passwords of at most 8 bytes);              *)
(*   - AES-GCM yields Len(plaintext) + 16 bytes, the last 16 being a tag   *)
(*     over key, iv and ciphertext body; decryption recomputes the tag and *)
(*     rejects on mismatch.  The tag separates bodies of at most 7 bytes,  *)
(*     and keys and ivs one at a time (no collisions, as for the real      *)
(*     128-bit tag up to negligible probability).                          *)
(***************************************************************************)
EXTENDS Integers, Sequences, FiniteSets

(***************************************************************************)
(* State of the bench                                                      *)
(***************************************************************************)
VARIABLES
  keyOf,        \* slot -> the credentials given to deriveKey and the key it returned
  derivations,  \* number of deriveKey calls so far
  file,         \* bytes of the file given to encryptFile
  enc,          \* what encryptFile returned
  blob,         \* the blob at hand
  blobSrc,      \* "none", "encrypted", "input", "tampered" or "stored"
  packArgs,     \* arguments of the createEncryptedBlob call
  ext,          \* what extractFromBlob returned
  dec,          \* what decryptData returned
  decArgs       \* arguments of the decryptData call

benchVars == <<keyOf, derivations, file, enc, blob, blobSrc, packArgs, ext, dec, decArgs>>

(***************************************************************************)
(* State of the application                                                *)
(***************************************************************************)
VARIABLES
  encryptionKey,      \* EncryptionProvider state: the CryptoKey held, or NullKey
  isEncryptionReady,  \* EncryptionProvider state
  keyFrom,            \* history: the email and passphrase the held key was derived from
  localStorage,       \* the entries of window.localStorage written by the application
  providerMounted,    \* the mount effect of EncryptionProvider has run
  authUser,           \* the user of the identity provider's current session, or NoUser
  loading,            \* EncryptionSetup state of the mounted instance
  setup,              \* the setupEncryption calls in flight, by call slot
  supplied,           \* history: a passphrase was submitted since the page was loaded
  lastToast,          \* the toast raised last
  job                 \* the handleUpload or saveVersion call in flight

sessionVars == <<encryptionKey, isEncryptionReady, keyFrom, localStorage, providerMounted,
                 authUser, loading, setup, supplied, lastToast>>

sessionVarsButToast == <<encryptionKey, isEncryptionReady, keyFrom, localStorage,
                         providerMounted, authUser, loading, setup, supplied>>

appVars == <<sessionVars, job>>

(***************************************************************************)
(* State of a caller that encrypts file after file                         *)
(***************************************************************************)
VARIABLES
  ivCalls,   \* number of encryptFile calls made with the key of slot 1
  drawn,     \* what crypto.getRandomValues returned in the last call
  usedIvs    \* the ivs the earlier calls returned

ivVars == <<ivCalls, drawn, usedIvs>>

(***************************************************************************)
(* State of the gallery and of the stores behind it                        *)
(***************************************************************************)
VARIABLES
  photoRows,        \* ids of the user's records in the photos table
  objects,          \* the object store: storage path of a photo -> bytes (none: << >>)
  photos,           \* PhotoGallery state: the photos of the last setPhotos
  decryptedImages,  \* PhotoGallery state: photo id -> handle of its plaintext
  decrypting,       \* PhotoGallery state: ids with a decryption under way
  tasks,            \* the decryptPhoto calls in flight, by task slot
  loads,            \* the fetchPhotos calls in flight and what their closures see
  galleryLoading,   \* PhotoGallery state: loading
  selectedPhoto,    \* PhotoGallery state: id of the selected photo, 0 for null
  deletion          \* the handleDelete call in flight

galleryVars == <<photoRows, objects, photos, decryptedImages, decrypting, tasks, loads,
                 galleryLoading, selectedPhoto, deletion>>

\* The editor of one photo, its version history, and the photo_versions table
\* and version objects they read and write.
VARIABLES
  selectedFilter,  \* ImageEditor state
  adjustments,     \* ImageEditor state
  edits,           \* number of changes made to the two so far
  saves,           \* tab -> the saveVersion call in flight in it
  versions,        \* the photo_versions records of the photo
  versionObjects,  \* storage paths that hold a version object
  versionSeq,      \* number of saveVersion calls made so far
  listed,          \* VersionHistory state: versions
  removal          \* the VersionHistory.handleDelete call in flight

versionVars == <<selectedFilter, adjustments, edits, saves, versions, versionObjects,
                 versionSeq, listed, removal>>

\* The upload form: PhotoUpload
VARIABLES
  form  \* PhotoUpload state: file and title

extraVars == <<ivVars, galleryVars, versionVars, form>>

\* Everything but the gallery and the toast.
aroundGallery == <<benchVars, sessionVarsButToast, job, ivVars, versionVars, form>>

\* Everything but the editor, the versions and the toast.
aroundVersions == <<benchVars, sessionVarsButToast, job, ivVars, galleryVars, form>>

vars == <<benchVars, appVars, extraVars>>

(***************************************************************************)
(* Program constants                                                       *)
(***************************************************************************)
ByteMod == 256

IvLength == 12

TagLength == 16

Iterations == 100000

KeyLength == 256

\* EncryptionSetup.handleSubmit: passphrase.length < 8 is rejected.
MinPassphraseLength == 8

(***************************************************************************)
(* Bounds of the model                                                     *)
(***************************************************************************)
MaxPlainLen == 2

NumIvs == 2

MaxDelta == 1

MaxStoredLen == 13

\* Characters a typed passphrase may have beyond the minimum length.
MaxExtraLen == 0

\* setupEncryption calls that may be in flight at once.
MaxSetups == 2

\* encryptFile calls made one after the other with one key.
MaxEncryptions == 3

\* decryptPhoto calls that may be in flight at once.
MaxTasks == 2

\* fetchPhotos calls in flight at once.
MaxLoads == 1

\* Changes made to filter and sliders in one run.
MaxEdits == 1

\* Tabs and devices that have the editor of the photo open.
MaxSavers == 2

\* saveVersion calls made for the photo in one run.
MaxVersions == 2

\* Values Date.now() takes in one run.
NumStamps == 2

(***************************************************************************)
(* Byte and string helpers                                                 *)
(***************************************************************************)
Min(a, b) == IF a < b THEN a ELSE b

\* Reading past the end of a zero-filled buffer.
At(s, j) == IF j >= 1 /\ j <= Len(s) THEN s[j] ELSE 0

\* Uint8Array.prototype.subarray(begin, end), 0-based, clamped to the length.
subarray(data, begin, end) ==
  LET b == Min(begin, Len(data))
      e == Min(end, Len(data))
  IN  IF e <= b THEN << >> ELSE [k \in 1..(e - b) |-> data[b + k]]

\* UTF-8 of one code unit below 2048.
Utf8(c) == IF c < 128 THEN <<c>> ELSE <<192 + (c \div 64), 128 + (c % 64)>>

\* TextEncoder.encode
RECURSIVE TextEncode(_)
TextEncode(s) == IF s = << >> THEN << >> ELSE Utf8(Head(s)) \o TextEncode(Tail(s))

\* "photovault-salt-v1"
SaltString == <<112, 104, 111, 116, 111, 118, 97, 117, 108, 116, 45,
                115, 97, 108, 116, 45, 118, 49>>

(***************************************************************************)
(* Web Crypto primitives                                                   *)
(***************************************************************************)
\* crypto.subtle.importKey("raw", data, {name: "PBKDF2"}, false, usages)
importKey(data) ==
  [algorithm |-> "PBKDF2", extractable |-> FALSE,
   usages |-> {"deriveBits", "deriveKey"}, raw |-> data]

\* PBKDF2-HMAC-SHA256: bytes 1..16 carry the password, bytes 17..32 the salt
\* and the iteration count.
PBKDF2(password, salt, iterations, length) ==
  [j \in 1..(length \div 8) |->
     IF j <= 16 THEN At(password, j)
     ELSE (At(salt, j - 16) + At(salt, j) + iterations) % ByteMod]

NullKey ==
  [algorithm |-> "null", length |-> 0, extractable |-> FALSE,
   usages |-> {}, bits |-> << >>]

\* 8 bytes that depend on the key's 32 bytes.
KeyBlock(key, m) == (At(key.bits, m) + At(key.bits, m + 8)
                     + At(key.bits, m + 16) + At(key.bits, m + 24)) % ByteMod

\* 8 bytes that depend on the iv (any length).
IvBlock(iv, m) == (At(iv, m) + 3 * At(iv, m + 8) + Len(iv)) % ByteMod

\* The i-th byte of the key stream of (key, iv).
KeyStream(key, iv, i) ==
  (KeyBlock(key, ((i - 1) % 8) + 1) + IvBlock(iv, ((i - 1) % 8) + 1) + i) % ByteMod

\* The 16-byte authentication tag over key, iv and ciphertext body.
GcmTag(key, iv, body) ==
  [j \in 1..TagLength |->
     IF j = 1 THEN Len(body) % ByteMod
     ELSE IF j <= 8 THEN At(body, j - 1)
     ELSE (KeyBlock(key, j - 8) + IvBlock(iv, j - 8)) % ByteMod]

Failure(name) == [ok |-> FALSE, data |-> << >>, error |-> name]

Success(bytes) == [ok |-> TRUE, data |-> bytes, error |-> ""]

\* crypto.subtle.encrypt({name: "AES-GCM", iv}, key, data)
AesGcmEncrypt(key, iv, data) ==
  IF key.algorithm # "AES-GCM" \/ "encrypt" \notin key.usages
    THEN Failure("InvalidAccessError")
  ELSE IF Len(iv) = 0 THEN Failure("OperationError")
  ELSE LET body == [i \in 1..Len(data) |-> (data[i] + KeyStream(key, iv, i)) % ByteMod]
       IN  Success(body \o GcmTag(key, iv, body))

\* crypto.subtle.decrypt({name: "AES-GCM", iv}, key, data)
AesGcmDecrypt(key, iv, data) ==
  IF key.algorithm # "AES-GCM" \/ "decrypt" \notin key.usages
    THEN Failure("InvalidAccessError")
  ELSE IF Len(iv) = 0 \/ Len(data) < TagLength THEN Failure("OperationError")
  ELSE LET n    == Len(data) - TagLength
           body == SubSeq(data, 1, n)
           tag  == SubSeq(data, n + 1, Len(data))
       IN  IF tag # GcmTag(key, iv, body) THEN Failure("OperationError")
           ELSE Success([i \in 1..n |->
                  (body[i] + ByteMod - KeyStream(key, iv, i)) % ByteMod])

(***************************************************************************)
(* The library                                                             *)
(***************************************************************************)
\* The secret input of the key derivation: encoder.encode(email + passphrase)
SecretInput(email, passphrase) == TextEncode(email \o passphrase)

\* Faulty variant: a salt that changes from call to call.
deriveKeyFreshSalt(email, passphrase) ==
  LET keyMaterial == importKey(SecretInput(email, passphrase))
  IN  [algorithm |-> "AES-GCM", length |-> KeyLength, extractable |-> FALSE,
       usages |-> {"encrypt", "decrypt"},
       bits |-> PBKDF2(keyMaterial.raw, <<derivations>> \o TextEncode(SaltString),
                       Iterations, KeyLength)]

\* Faulty variant: the identity is left out of the secret input.
deriveKeyNoIdentity(email, passphrase) ==
  LET keyMaterial == importKey(TextEncode(passphrase))
  IN  [algorithm |-> "AES-GCM", length |-> KeyLength, extractable |-> FALSE,
       usages |-> {"encrypt", "decrypt"},
       bits |-> PBKDF2(keyMaterial.raw, TextEncode(SaltString), Iterations, KeyLength)]

deriveKey(email, passphrase) ==
  LET keyMaterial == importKey(SecretInput(email, passphrase))
  IN  [algorithm |-> "AES-GCM", length |-> KeyLength, extractable |-> FALSE,
       usages |-> {"encrypt", "decrypt"},
       bits |-> PBKDF2(keyMaterial.raw, TextEncode(SaltString), Iterations, KeyLength)]

\* Faulty variant: the iv is fixed instead of random.
encryptFileStaticIv(fileData, key, iv) ==
  LET static == [k \in 1..IvLength |-> 0]
      r == AesGcmEncrypt(key, static, fileData)
  IN  [ok |-> r.ok, encryptedData |-> r.data, iv |-> static, error |-> r.error]

\* iv is the value crypto.getRandomValues(new Uint8Array(12)) returned
encryptFile(fileData, key, iv) ==
  LET r == AesGcmEncrypt(key, iv, fileData)
  IN  [ok |-> r.ok, encryptedData |-> r.data, iv |-> iv, error |-> r.error]

\* Faulty variant: the tag is dropped without being verified.
decryptDataUnverified(encryptedData, iv, key) ==
  IF Len(iv) = 0 \/ Len(encryptedData) < TagLength THEN Failure("OperationError")
  ELSE Success([i \in 1..(Len(encryptedData) - TagLength) |->
         (encryptedData[i] + ByteMod - KeyStream(key, iv, i)) % ByteMod])

decryptData(encryptedData, iv, key) ==
  LET ivBuffer == [k \in 1..Len(iv) |-> iv[k]]
  IN  AesGcmDecrypt(key, ivBuffer, encryptedData)

\* Faulty variant: the iv is written after the encrypted data.
createEncryptedBlobIvLast(encryptedData, iv) ==
  [k \in 1..(Len(iv) + Len(encryptedData)) |->
     IF k <= Len(encryptedData) THEN encryptedData[k] ELSE iv[k - Len(encryptedData)]]

createEncryptedBlob(encryptedData, iv) ==
  [k \in 1..(Len(iv) + Len(encryptedData)) |->
     IF k <= Len(iv) THEN iv[k] ELSE encryptedData[k - Len(iv)]]

\* Faulty variant: the split is one byte early.
extractFromBlobOffByOne(blobBytes) ==
  LET data == blobBytes
      iv == subarray(data, 0, IvLength - 1)
      encryptedDataView == subarray(data, IvLength - 1, Len(data))
  IN  [ok |-> TRUE, iv |-> iv, encryptedData |-> encryptedDataView, error |-> ""]

\* Faulty variant: a blob that holds nothing but an iv is rejected.
extractFromBlobNeedsData(blobBytes) ==
  LET data == blobBytes
      iv == subarray(data, 0, IvLength)
      encryptedDataView == subarray(data, IvLength, Len(data))
  IN  IF Len(data) <= IvLength
        THEN [ok |-> FALSE, iv |-> << >>, encryptedData |-> << >>, error |-> "TruncatedBlob"]
        ELSE [ok |-> TRUE, iv |-> iv, encryptedData |-> encryptedDataView, error |-> ""]

extractFromBlob(blobBytes) ==
  LET data == blobBytes
      iv == subarray(data, 0, IvLength)
      encryptedDataView == subarray(data, IvLength, Len(data))
  IN  [ok |-> TRUE, iv |-> iv, encryptedData |-> encryptedDataView, error |-> ""]

(***************************************************************************)
(* Inputs of the bench                                                     *)
(***************************************************************************)
\* Identities ("a", "ab") and passphrases ("c", "bc", "éc"): "a" + "bc" and "ab" + "c"
\* are the same string.
Identities == {<<97>>, <<97, 98>>}

Passphrases == {<<99>>, <<98, 99>>, <<233, 99>>}

RECURSIVE SeqsUpTo(_, _)
SeqsUpTo(S, n) ==
  IF n = 0 THEN {<< >>}
  ELSE LET shorter == SeqsUpTo(S, n - 1)
       IN  shorter \cup {Append(s, x) : s \in {t \in shorter : Len(t) = n - 1}, x \in S}

\* File contents.
PlainBytes == {1, 255}

Plaintexts == SeqsUpTo(PlainBytes, MaxPlainLen)

\* Values crypto.getRandomValues(new Uint8Array(12)) may return.
RandomIvs == {[k \in 1..IvLength |-> (r * k + 7) % ByteMod] : r \in 1..NumIvs}

\* Byte arrays of every length up to n, the one of length n filled with 40 + n, 41 + n, ...
Ramp(n) == [k \in 1..n |-> (39 + n + k) % ByteMod]

\* Iv arguments of other lengths, for direct calls.
IvInputs == {Ramp(0), Ramp(IvLength - 1), Ramp(IvLength), Ramp(IvLength + 1)}

\* Ciphertext arguments for direct calls of createEncryptedBlob.
CiphertextInputs == {<< >>, <<5>>, <<5, 6>>}

\* Objects a fetch may return: any length from 0 to MaxStoredLen.
StoredBlobs == {Ramp(n) : n \in 0..MaxStoredLen}

Slots == {1, 2}

NoResult == [ok |-> FALSE, data |-> << >>, error |-> "none"]

NoEnc == [ok |-> FALSE, encryptedData |-> << >>, iv |-> << >>, error |-> "none"]

NoExt == [ok |-> FALSE, iv |-> << >>, encryptedData |-> << >>, error |-> "none"]

NoArgs == [set |-> FALSE, encryptedData |-> << >>, iv |-> << >>, plain |-> << >>, slot |-> 0]

NoCred == [derived |-> FALSE, email |-> << >>, passphrase |-> << >>, key |-> NullKey]

BenchInit ==
  /\ keyOf = [s \in Slots |-> NoCred]
  /\ derivations = 0
  /\ file = << >>
  /\ enc = NoEnc
  /\ blob = << >>
  /\ blobSrc = "none"
  /\ packArgs = NoArgs
  /\ ext = NoExt
  /\ dec = NoResult
  /\ decArgs = NoArgs

(***************************************************************************)
(* Values of the application state                                         *)
(***************************************************************************)
\* getUser's answer when there is no session.
NoUser == [id |-> 0, email |-> << >>]

\* Accounts of the identity provider; the last one has no email address.
Users == {[id |-> 1, email |-> <<97>>], [id |-> 2, email |-> <<97, 98>>],
          [id |-> 3, email |-> << >>]}

\* A passphrase of n characters, as typed into the EncryptionSetup form.
PassphraseOfLength(n) == [k \in 1..n |-> 112]

\* The passphrases a user submits: none, one character short, and long enough.
TypedPassphrases ==
  {PassphraseOfLength(n) :
     n \in {0, MinPassphraseLength - 1} \cup
           (MinPassphraseLength..(MinPassphraseLength + MaxExtraLen))}

\* The entry localStorage.setItem("encryption_enabled", "true") writes.
EnabledFlag == [name |-> "encryption_enabled", value |-> <<116, 114, 117, 101>>]

getItem(storage, name) ==
  IF \E e \in storage : e.name = name
  THEN (CHOOSE e \in storage : e.name = name).value
  ELSE << >>

setItem(storage, entry) == {e \in storage : e.name # entry.name} \cup {entry}

removeItem(storage, name) == {e \in storage : e.name # name}

SetupSlots == 1..MaxSetups

\* A slot with no setupEncryption call in flight.
IdleSetup == [pc |-> "idle", passphrase |-> << >>, email |-> << >>,
              live |-> FALSE, afterClear |-> FALSE]

NoOrigin == [email |-> << >>, passphrase |-> << >>]

\* No file selected, no canvas.
NoFile == [name |-> << >>, bytes |-> << >>]

\* Files a user selects and images the editor's canvas renders to.
Files == {[name |-> <<102>>, bytes |-> <<1>>], [name |-> <<103>>, bytes |-> <<255, 1>>]}

\* What a user types into the title field of the upload form.
Titles == {<< >>, <<116>>}

NoRecord == [table |-> "none", user_id |-> 0, title |-> << >>, storage_path |-> 0]

\* No handleUpload or saveVersion call in flight.
NoJob == [kind |-> "none", pc |-> "idle", file |-> NoFile, title |-> << >>,
          key |-> NullKey, iv |-> << >>, path |-> 0, object |-> << >>,
          record |-> NoRecord]

\* A freshly loaded page, nobody signed in, nothing in localStorage.
AppAtRest ==
  /\ encryptionKey = NullKey
  /\ isEncryptionReady = FALSE
  /\ keyFrom = NoOrigin
  /\ localStorage = {}
  /\ providerMounted = FALSE
  /\ authUser = NoUser
  /\ loading = FALSE
  /\ setup = [t \in SetupSlots |-> IdleSetup]
  /\ supplied = FALSE
  /\ lastToast = "none"
  /\ job = NoJob

\* No encryptFile call made yet.
IvAtRest ==
  /\ ivCalls = 0
  /\ drawn = << >>
  /\ usedIvs = {}

PhotoIds == {1, 2}

TaskSlots == 1..MaxTasks

LoadSlots == 1..MaxLoads

NoHandle == [has |-> FALSE, plain |-> << >>]

IdleTask == [pc |-> "idle", id |-> 0]

NoLoad == [pc |-> "idle", seenCached |-> {}, seenDecrypting |-> {}]

NoDeletion == [pc |-> "idle", id |-> 0, seenCached |-> {}, seenDecrypting |-> {}]

\* PhotoGallery is not mounted, the stores are empty.
GalleryAtRest ==
  /\ photoRows = {}
  /\ objects = [id \in PhotoIds |-> << >>]
  /\ photos = {}
  /\ decryptedImages = [id \in PhotoIds |-> NoHandle]
  /\ decrypting = {}
  /\ tasks = [t \in TaskSlots |-> IdleTask]
  /\ loads = [l \in LoadSlots |-> NoLoad]
  /\ galleryLoading = TRUE
  /\ selectedPhoto = 0
  /\ deletion = NoDeletion

\* filterPresets: its keys.
Filters == {"none", "vintage", "blackAndWhite", "cinematic", "warm", "cool"}

\* interface Adjustments: its keys.
AdjustmentKeys == {"exposure", "contrast", "saturation", "temperature", "tint",
                   "highlights", "shadows", "vibrance"}

\* useState<Adjustments>: every slider at 0.
NoAdjustments == [key \in AdjustmentKeys |-> 0]

SaveSlots == 1..MaxSavers

Stamps == 1..NumStamps

\* No saveVersion call in flight.
NoSave == [pc |-> "idle", call |-> 0, filter |-> "none", adjustments |-> NoAdjustments,
           number |-> 0, path |-> << >>]

\* edit_metadata of a record that has none.
NoMetadata ==
  [present |-> FALSE,
   filter |-> [type |-> "null", text |-> "", negative |-> FALSE, digits |-> << >>],
   adjustments |-> [key \in AdjustmentKeys |->
                      [type |-> "null", text |-> "", negative |-> FALSE, digits |-> << >>]]]

\* A photo_versions record has the columns id, version_number, storage_path,
\* url and edit_metadata; shown is no column: it keeps what the editor showed
\* when the saveVersion call that inserted the record was made.
NoVersion == [id |-> 0, version_number |-> 0, storage_path |-> << >>, url |-> << >>,
              edit_metadata |-> NoMetadata,
              shown |-> [filter |-> "none", adjustments |-> NoAdjustments]]

NoRemoval == [pc |-> "idle", version |-> NoVersion]

\* The editor as it opens, with no version saved yet.
VersionAtRest ==
  /\ selectedFilter = "none"
  /\ adjustments = NoAdjustments
  /\ edits = 0
  /\ saves = [s \in SaveSlots |-> NoSave]
  /\ versions = {}
  /\ versionObjects = {}
  /\ versionSeq = 0
  /\ listed = {}
  /\ removal = NoRemoval

\* The upload form as it renders first.
FormAtRest == form = [file |-> NoFile, title |-> << >>]

ExtraAtRest == IvAtRest /\ GalleryAtRest /\ VersionAtRest /\ FormAtRest

Init == BenchInit /\ AppAtRest /\ ExtraAtRest

\* One call of deriveKey per slot.
DeriveKey(slot, email, passphrase) ==
  /\ ~keyOf[slot].derived
  /\ keyOf' = [keyOf EXCEPT ![slot] =
                 [derived |-> TRUE, email |-> email, passphrase |-> passphrase,
                  key |-> deriveKey(email, passphrase)]]
  /\ derivations' = derivations + 1
  /\ UNCHANGED <<appVars, extraVars, file, enc, blob, blobSrc, packArgs, ext, dec, decArgs>>

\* encryptFile(file, key) with the key of slot 1 and a fresh random iv.
EncryptFile(fileData, iv) ==
  /\ keyOf[1].derived
  /\ enc.error = "none"
  /\ blobSrc = "none"
  /\ dec.error = "none"
  /\ file' = fileData
  /\ enc' = encryptFile(fileData, keyOf[1].key, iv)
  /\ UNCHANGED <<appVars, extraVars, keyOf, derivations, blob, blobSrc, packArgs, ext, dec, decArgs>>

\* createEncryptedBlob on what encryptFile returned.
PackEncrypted ==
  /\ enc.ok
  /\ blobSrc = "none"
  /\ packArgs' = [set |-> TRUE, encryptedData |-> enc.encryptedData, iv |-> enc.iv,
                  plain |-> file, slot |-> 1]
  /\ blob' = createEncryptedBlob(enc.encryptedData, enc.iv)
  /\ blobSrc' = "encrypted"
  /\ UNCHANGED <<appVars, extraVars, keyOf, derivations, file, enc, ext, dec, decArgs>>

\* createEncryptedBlob called directly on any ciphertext and iv.
PackInput(encryptedData, iv) ==
  /\ enc.error = "none"
  /\ blobSrc = "none"
  /\ dec.error = "none"
  /\ packArgs' = [set |-> TRUE, encryptedData |-> encryptedData, iv |-> iv,
                  plain |-> << >>, slot |-> 0]
  /\ blob' = createEncryptedBlob(encryptedData, iv)
  /\ blobSrc' = "input"
  /\ UNCHANGED <<appVars, extraVars, keyOf, derivations, file, enc, ext, dec, decArgs>>

\* The object store returns some object.
FetchStored(bytes) ==
  /\ enc.error = "none"
  /\ blobSrc = "none"
  /\ dec.error = "none"
  /\ blob' = bytes
  /\ blobSrc' = "stored"
  /\ UNCHANGED <<appVars, extraVars, keyOf, derivations, file, enc, packArgs, ext, dec, decArgs>>

\* One byte of the ciphertext region of a packed blob is changed.
TamperBlob(i, delta) ==
  /\ blobSrc = "encrypted"
  /\ ext.error = "none"
  /\ i > IvLength /\ i <= Len(blob)
  /\ blob' = [blob EXCEPT ![i] = (blob[i] + delta) % ByteMod]
  /\ blobSrc' = "tampered"
  /\ UNCHANGED <<appVars, extraVars, keyOf, derivations, file, enc, packArgs, ext, dec, decArgs>>

ExtractFromBlob ==
  /\ blobSrc # "none"
  /\ ext.error = "none"
  /\ ext' = extractFromBlob(blob)
  /\ UNCHANGED <<appVars, extraVars, keyOf, derivations, file, enc, blob, blobSrc, packArgs, dec, decArgs>>

\* decryptData on what extractFromBlob returned, with the key of either slot.
DecryptExtracted(slot) ==
  /\ ext.ok
  /\ keyOf[slot].derived
  /\ dec.error = "none"
  /\ decArgs' = [set |-> TRUE, encryptedData |-> ext.encryptedData, iv |-> ext.iv,
                 plain |-> << >>, slot |-> slot]
  /\ dec' = decryptData(ext.encryptedData, ext.iv, keyOf[slot].key)
  /\ UNCHANGED <<appVars, extraVars, keyOf, derivations, file, enc, blob, blobSrc, packArgs, ext>>

\* decryptData called directly with the key of slot 1, on the AES-GCM
\* encryption of some plaintext under that key and an iv of any length.
DecryptInput(plain, iv) ==
  /\ keyOf[1].derived
  /\ blobSrc = "none"
  /\ enc.error = "none"
  /\ dec.error = "none"
  /\ AesGcmEncrypt(keyOf[1].key, iv, plain).ok
  /\ LET c == AesGcmEncrypt(keyOf[1].key, iv, plain).data
     IN  /\ decArgs' = [set |-> TRUE, encryptedData |-> c, iv |-> iv,
                        plain |-> plain, slot |-> 1]
         /\ dec' = decryptData(c, iv, keyOf[1].key)
  /\ UNCHANGED <<appVars, extraVars, keyOf, derivations, file, enc, blob, blobSrc, packArgs, ext>>

Next ==
  \/ \E slot \in Slots, email \in Identities, passphrase \in Passphrases :
       DeriveKey(slot, email, passphrase)
  \/ \E fileData \in Plaintexts, iv \in RandomIvs : EncryptFile(fileData, iv)
  \/ PackEncrypted
  \/ \E c \in CiphertextInputs, iv \in IvInputs : PackInput(c, iv)
  \/ \E bytes \in StoredBlobs : FetchStored(bytes)
  \/ \E i \in 1..(IvLength + MaxPlainLen + TagLength), delta \in 1..MaxDelta :
       TamperBlob(i, delta)
  \/ ExtractFromBlob
  \/ \E slot \in Slots : DecryptExtracted(slot)
  \/ \E plain \in Plaintexts, iv \in IvInputs : DecryptInput(plain, iv)

Spec == Init /\ [][Next]_vars

(***************************************************************************)
(* Properties                                                              *)
(***************************************************************************)
\* decryptData was called on what extractFromBlob returned for the blob at hand.
Decrypted == ext.ok /\ decArgs.set /\ dec.error # "none" /\ blobSrc # "none"

\* The rejection of crypto.subtle.decrypt, the spec's DecryptionFailed.
DecryptionFailed(r) == ~r.ok /\ r.error = "OperationError"

SameCredentials(s, t) ==
  /\ keyOf[s].derived /\ keyOf[t].derived
  /\ keyOf[s].email = keyOf[t].email
  /\ keyOf[s].passphrase = keyOf[t].passphrase

\* C1: encrypting a file, packing, unpacking and decrypting under the same key
\* returns exactly the bytes of the file.
RoundTrip ==
  (Decrypted /\ blobSrc = "encrypted" /\ keyOf[decArgs.slot].key = keyOf[1].key)
    => (dec.ok /\ dec.data = file)

RoundTripWitness ==
  /\ Decrypted /\ blobSrc = "encrypted" /\ decArgs.slot = 1
  /\ Len(file) = 2 /\ dec.ok /\ dec.data = file

\* C2: for a 12-byte iv the blob is the iv followed by the ciphertext and
\* nothing else: length 12 + Len(c), bytes [0..12) the iv, bytes [12..end) c.
BlobLayout ==
  (packArgs.set /\ blobSrc \in {"encrypted", "input"} /\ Len(packArgs.iv) = IvLength)
    => /\ Len(blob) = IvLength + Len(packArgs.encryptedData)
       /\ SubSeq(blob, 1, IvLength) = packArgs.iv
       /\ SubSeq(blob, IvLength + 1, Len(blob)) = packArgs.encryptedData

BlobLayoutWitness ==
  /\ packArgs.set /\ blobSrc = "input"
  /\ Len(packArgs.iv) = IvLength /\ Len(packArgs.encryptedData) = 2
  /\ Len(blob) = IvLength + 2

\* C3: createEncryptedBlob fails with InvalidIv, and produces no blob, when
\* the iv does not have length 12.
PackRejectsBadIv ==
  (packArgs.set /\ Len(packArgs.iv) # IvLength) => blobSrc = "none"

\* C4: extractFromBlob fails with TruncatedBlob on a blob shorter than 12
\* bytes and returns no (iv, ciphertext) pair.
UnpackRejectsShortBlob ==
  (ext.error # "none" /\ Len(blob) < IvLength)
    => (~ext.ok /\ ext.error = "TruncatedBlob")

\* C5: extractFromBlob on a blob of exactly 12 bytes succeeds with an empty
\* ciphertext and an iv equal to those 12 bytes.
UnpackBareIv ==
  (ext.error # "none" /\ Len(blob) = IvLength)
    => (ext.ok /\ ext.iv = blob /\ ext.encryptedData = << >>)

UnpackBareIvWitness ==
  /\ blobSrc = "stored" /\ Len(blob) = IvLength
  /\ ext.ok /\ Len(ext.iv) = IvLength

WrongPassphrase(s) ==
  /\ keyOf[s].derived /\ keyOf[1].derived
  /\ keyOf[s].email = keyOf[1].email
  /\ keyOf[s].passphrase # keyOf[1].passphrase

\* C6: if one byte of the ciphertext region of a packed blob was changed, or
\* the key comes from a different passphrase, unpacking and decrypting fails
\* with DecryptionFailed and returns no plaintext.
TamperOrWrongKeyFails ==
  (Decrypted /\ (blobSrc = "tampered"
                 \/ (blobSrc = "encrypted" /\ WrongPassphrase(decArgs.slot))))
    => (DecryptionFailed(dec) /\ dec.data = << >>)

TamperWitness ==
  /\ Decrypted /\ blobSrc = "tampered" /\ decArgs.slot = 1
  /\ Len(file) = 2 /\ DecryptionFailed(dec)

\* C7: decryptData fails with DecryptionFailed whenever its iv does not have
\* length 12, for every ciphertext and key.
DecryptRejectsBadIvLength ==
  (decArgs.set /\ dec.error # "none" /\ Len(decArgs.iv) # IvLength)
    => DecryptionFailed(dec)

OtherIdentity(s) ==
  /\ keyOf[s].derived /\ keyOf[1].derived
  /\ keyOf[s].email # keyOf[1].email
  /\ keyOf[s].passphrase = keyOf[1].passphrase

\* C9: with the same passphrase, the key of another identity does not decrypt
\* what was encrypted under the key of this identity.
KeySeparation ==
  (Decrypted /\ blobSrc = "encrypted" /\ OtherIdentity(decArgs.slot))
    => DecryptionFailed(dec)

KeySeparationWitness ==
  /\ Decrypted /\ blobSrc = "encrypted" /\ OtherIdentity(decArgs.slot)
  /\ Len(file) = 2 /\ DecryptionFailed(dec)

\* C10: two users with different identities never get the same secret input,
\* nor the same key, whatever passphrases they choose.
IdentitySeparatesKeys ==
  (keyOf[1].derived /\ keyOf[2].derived /\ keyOf[1].email # keyOf[2].email)
    => /\ SecretInput(keyOf[1].email, keyOf[1].passphrase)
            # SecretInput(keyOf[2].email, keyOf[2].passphrase)
       /\ keyOf[1].key # keyOf[2].key

(***************************************************************************)
(* The application: EncryptionProvider, EncryptionSetup, Index             *)
(*                                                                         *)
(* A step is what runs between two awaits.  The state updates of one such  *)
(* piece of code are committed together (React 18 batches them), so each   *)
(* piece is one action.  EncryptionProvider is mounted above the router:   *)
(* its state survives navigation and ends only with the page.              *)
(***************************************************************************)
\* What Index renders: the sign-in page when there is no user, the passphrase
\* prompt while encryption is not ready, the gallery and the upload otherwise.
View(user, ready) ==
  IF user = NoUser THEN "auth" ELSE IF ~ready THEN "setup" ELSE "gallery"

\* The calls launched by an EncryptionSetup instance that is unmounted.
Detach(calls) == [t \in SetupSlots |-> [calls[t] EXCEPT !.live = FALSE]]

\* Faulty variant: the check of the passphrase length is missing.
tooShortNever(passphrase) == FALSE

\* handleSubmit: passphrase.length < 8.
tooShort(passphrase) == Len(passphrase) < MinPassphraseLength

\* Faulty variant: the flag in localStorage is taken as readiness.
mountEffectTrustsFlag(storage, ready) ==
  IF getItem(storage, EnabledFlag.name) = EnabledFlag.value THEN TRUE ELSE ready

\* The mount effect of EncryptionProvider: isEncryptionReady after it.
mountEffect(storage, ready) ==
  IF getItem(storage, EnabledFlag.name) = EnabledFlag.value THEN FALSE ELSE ready

\* The page is loaded: nothing in memory; localStorage and the provider's
\* session are what earlier page sessions left.
AppInit ==
  /\ BenchInit
  /\ ExtraAtRest
  /\ encryptionKey = NullKey
  /\ isEncryptionReady = FALSE
  /\ keyFrom = NoOrigin
  /\ localStorage \in {{}, {EnabledFlag}}
  /\ providerMounted = FALSE
  /\ authUser \in {NoUser} \cup Users
  /\ loading = FALSE
  /\ setup = [t \in SetupSlots |-> IdleSetup]
  /\ supplied = FALSE
  /\ lastToast = "none"
  /\ job = NoJob

\* EncryptionProvider mounts and its effect runs.
Mount ==
  /\ ~providerMounted
  /\ providerMounted' = TRUE
  /\ isEncryptionReady' = mountEffect(localStorage, isEncryptionReady)
  /\ UNCHANGED <<benchVars, extraVars, job, encryptionKey, keyFrom, localStorage, authUser, loading,
                 setup, supplied, lastToast>>

\* EncryptionSetup.handleSubmit up to its await: the form is shown only while
\* encryption is not ready, its button is disabled while loading.
HandleSubmit(t, passphrase) ==
  /\ providerMounted
  /\ View(authUser, isEncryptionReady) = "setup"
  /\ ~loading
  /\ setup[t].pc = "idle"
  /\ \A u \in SetupSlots : u < t => setup[u].pc # "idle"
  /\ supplied' = TRUE
  /\ IF tooShort(passphrase)
     THEN /\ lastToast' = "Passphrase must be at least 8 characters"
          /\ UNCHANGED <<loading, setup>>
     ELSE /\ loading' = TRUE
          /\ setup' = [setup EXCEPT ![t] =
                         [pc |-> "getUser", passphrase |-> passphrase, email |-> << >>,
                          live |-> TRUE, afterClear |-> TRUE]]
          /\ UNCHANGED lastToast
  /\ UNCHANGED <<benchVars, extraVars, job, encryptionKey, isEncryptionReady, keyFrom, localStorage,
                 providerMounted, authUser>>

\* setupEncryption fails: its catch raises the toast and rethrows, handleSubmit
\* logs the error and its finally clears loading of the instance, if still mounted.
SetupThrows(t) ==
  /\ lastToast' = "Failed to set up encryption"
  /\ setup' = [setup EXCEPT ![t] = IdleSetup]
  /\ loading' = IF setup[t].live THEN FALSE ELSE loading

\* setupEncryption after await supabase.auth.getUser().
SetupGetUser(t) ==
  /\ setup[t].pc = "getUser"
  /\ IF authUser.email = << >>
     THEN SetupThrows(t)
     ELSE /\ setup' = [setup EXCEPT ![t].pc = "derive", ![t].email = authUser.email]
          /\ UNCHANGED <<loading, lastToast>>
  /\ UNCHANGED <<benchVars, extraVars, job, encryptionKey, isEncryptionReady, keyFrom, localStorage,
                 providerMounted, authUser, supplied>>

\* What setupEncryption does with the key deriveKey resolved to, up to the
\* write of the flag.
SetupStoresKey(t) ==
  /\ setup[t].pc = "derive"
  /\ encryptionKey' = deriveKey(setup[t].email, setup[t].passphrase)
  /\ isEncryptionReady' = TRUE
  /\ keyFrom' = [email |-> setup[t].email, passphrase |-> setup[t].passphrase]

\* Faulty variant: the passphrase is kept in localStorage next to the flag.
SetupSucceedsStoresPassphrase(t) ==
  /\ SetupStoresKey(t)
  /\ localStorage' = setItem(setItem(localStorage, EnabledFlag),
                             [name |-> "passphrase", value |-> setup[t].passphrase])
  /\ lastToast' = "Encryption enabled"
  /\ setup' = [Detach(setup) EXCEPT ![t] = IdleSetup]
  /\ loading' = FALSE
  /\ UNCHANGED <<benchVars, extraVars, job, providerMounted, authUser, supplied>>

\* setupEncryption after await deriveKey(...), to its end; EncryptionSetup is
\* unmounted by the gallery taking its place.
SetupSucceeds(t) ==
  /\ SetupStoresKey(t)
  /\ localStorage' = setItem(localStorage, EnabledFlag)
  /\ lastToast' = "Encryption enabled"
  /\ setup' = [Detach(setup) EXCEPT ![t] = IdleSetup]
  /\ loading' = FALSE
  /\ UNCHANGED <<benchVars, extraVars, job, providerMounted, authUser, supplied>>

\* The same, with localStorage.setItem throwing (storage full or disabled):
\* the key is stored and the call fails.
SetupStorageThrows(t) ==
  /\ SetupStoresKey(t)
  /\ lastToast' = "Failed to set up encryption"
  /\ setup' = [Detach(setup) EXCEPT ![t] = IdleSetup]
  /\ loading' = FALSE
  /\ UNCHANGED <<benchVars, extraVars, job, localStorage, providerMounted, authUser, supplied>>

\* await deriveKey(...) rejects (crypto.subtle unavailable or failing).
SetupDeriveRejects(t) ==
  /\ setup[t].pc = "derive"
  /\ SetupThrows(t)
  /\ UNCHANGED <<benchVars, extraVars, job, encryptionKey, isEncryptionReady, keyFrom, localStorage,
                 providerMounted, authUser, supplied>>

\* Faulty variant: readiness is kept when the key is dropped.
ClearEncryptionKeepsReady ==
  /\ providerMounted
  /\ encryptionKey' = NullKey
  /\ keyFrom' = NoOrigin
  /\ localStorage' = removeItem(localStorage, EnabledFlag.name)
  /\ setup' = [t \in SetupSlots |-> [setup[t] EXCEPT !.afterClear = FALSE]]
  /\ UNCHANGED <<benchVars, extraVars, job, isEncryptionReady, providerMounted, authUser, loading,
                 supplied, lastToast>>

\* clearEncryption, offered to every component by the context.
ClearEncryption ==
  /\ providerMounted
  /\ encryptionKey' = NullKey
  /\ isEncryptionReady' = FALSE
  /\ keyFrom' = NoOrigin
  /\ localStorage' = removeItem(localStorage, EnabledFlag.name)
  /\ setup' = [t \in SetupSlots |-> [setup[t] EXCEPT !.afterClear = FALSE]]
  /\ UNCHANGED <<benchVars, extraVars, job, providerMounted, authUser, loading, supplied, lastToast>>

\* Faulty variant: signing in derives a key from a stored passphrase.
SignInDerivesKey(user) ==
  /\ providerMounted
  /\ authUser = NoUser
  /\ authUser' = user
  /\ encryptionKey' = deriveKey(user.email, PassphraseOfLength(MinPassphraseLength))
  /\ isEncryptionReady' = TRUE
  /\ keyFrom' = [email |-> user.email, passphrase |-> PassphraseOfLength(MinPassphraseLength)]
  /\ UNCHANGED <<benchVars, extraVars, job, localStorage, providerMounted, loading, setup, supplied,
                 lastToast>>

\* AuthForm: sign-in succeeds and the router shows Index.
SignIn(user) ==
  /\ providerMounted
  /\ authUser = NoUser
  /\ authUser' = user
  /\ UNCHANGED <<benchVars, extraVars, job, encryptionKey, isEncryptionReady, keyFrom, localStorage,
                 providerMounted, loading, setup, supplied, lastToast>>

\* Index.handleSignOut, from the header of the gallery view.
HandleSignOut ==
  /\ providerMounted
  /\ View(authUser, isEncryptionReady) = "gallery"
  /\ authUser' = NoUser
  /\ lastToast' = "Signed out successfully"
  /\ UNCHANGED <<benchVars, extraVars, job, encryptionKey, isEncryptionReady, keyFrom, localStorage,
                 providerMounted, loading, setup, supplied>>

\* The provider's session ends by itself; Index navigates to the sign-in page.
SessionEnds ==
  /\ providerMounted
  /\ authUser # NoUser
  /\ authUser' = NoUser
  /\ loading' = FALSE
  /\ setup' = Detach(setup)
  /\ UNCHANGED <<benchVars, extraVars, job, encryptionKey, isEncryptionReady, keyFrom, localStorage,
                 providerMounted, supplied, lastToast>>

\* The page is reloaded: memory is lost, localStorage and the session stay.
Reload ==
  /\ providerMounted
  /\ encryptionKey' = NullKey
  /\ isEncryptionReady' = FALSE
  /\ keyFrom' = NoOrigin
  /\ providerMounted' = FALSE
  /\ loading' = FALSE
  /\ setup' = [t \in SetupSlots |-> IdleSetup]
  /\ supplied' = FALSE
  /\ lastToast' = "none"
  /\ job' = NoJob
  /\ UNCHANGED <<benchVars, extraVars, localStorage, authUser>>

\* Faulty variant: the file itself is uploaded.
encryptedBlobOfPlain(fileData, key, iv) == [ok |-> TRUE, blob |-> fileData]

\* encryptFile(file, encryptionKey), then createEncryptedBlob(encryptedData, iv).
encryptedBlobOf(fileData, key, iv) ==
  LET encrypted == encryptFile(fileData, key, iv)
  IN  [ok |-> encrypted.ok,
       blob |-> IF encrypted.ok
                THEN createEncryptedBlob(encrypted.encryptedData, encrypted.iv)
                ELSE << >>]

\* PhotoUpload.handleUpload up to its first await.  The upload dialog is part
\* of the gallery view.
HandleUpload(selected, title) ==
  /\ providerMounted
  /\ View(authUser, isEncryptionReady) = "gallery"
  /\ job.pc = "idle"
  /\ IF selected = NoFile
     THEN lastToast' = "Please select a photo" /\ UNCHANGED job
     ELSE IF encryptionKey = NullKey
     THEN lastToast' = "Encryption not set up" /\ UNCHANGED job
     ELSE /\ job' = [NoJob EXCEPT !.kind = "upload", !.pc = "getUser", !.file = selected,
                                  !.title = title, !.key = encryptionKey]
          /\ UNCHANGED lastToast
  /\ UNCHANGED <<benchVars, extraVars, sessionVarsButToast>>

\* ImageEditor.saveVersion up to its first await; canvas is what the canvas
\* renders to.  The editor is opened from the gallery.
SaveVersion(canvas) ==
  /\ providerMounted
  /\ View(authUser, isEncryptionReady) = "gallery"
  /\ job.pc = "idle"
  /\ IF canvas = NoFile \/ encryptionKey = NullKey
     THEN lastToast' = "Unable to save version" /\ UNCHANGED job
     ELSE /\ job' = [NoJob EXCEPT !.kind = "version", !.pc = "getUser", !.file = canvas,
                                  !.key = encryptionKey]
          /\ UNCHANGED lastToast
  /\ UNCHANGED <<benchVars, extraVars, sessionVarsButToast>>

\* The catch and finally of either handler.
JobThrows(message) ==
  /\ lastToast' = IF job.kind = "upload" THEN message ELSE "Failed to save version"
  /\ job' = NoJob

\* Either handler after await supabase.auth.getUser(): the file is encrypted
\* under the key the handler was started with and a fresh iv, packed, and
\* handed to the object store under the user's folder.
JobEncryptsAndPuts(iv) ==
  /\ job.pc = "getUser"
  /\ LET packed == encryptedBlobOf(job.file.bytes, job.key, iv)
     IN  IF authUser = NoUser
         THEN JobThrows("Not authenticated")
         ELSE IF ~packed.ok
         THEN JobThrows("Failed to upload photo")
         ELSE /\ job' = [job EXCEPT !.pc = "put", !.iv = iv, !.path = authUser.id,
                                    !.object = packed.blob]
              /\ UNCHANGED lastToast
  /\ UNCHANGED <<benchVars, extraVars, sessionVarsButToast>>

\* The storage upload reported no error: the record is handed to the record store.
JobInserts ==
  /\ job.pc = "put"
  /\ job' = [NoJob EXCEPT !.kind = job.kind, !.pc = "insert",
               !.record = [table |-> IF job.kind = "upload" THEN "photos" ELSE "photo_versions",
                           user_id |-> job.path,
                           title |-> IF job.kind = "version" THEN << >>
                                     ELSE IF job.title # << >> THEN job.title
                                     ELSE job.file.name,
                           storage_path |-> job.path]]
  /\ UNCHANGED <<benchVars, extraVars, sessionVars>>

\* The storage upload or the insert reported an error.
JobStoreFails ==
  /\ job.pc \in {"put", "insert"}
  /\ JobThrows("Failed to upload photo")
  /\ UNCHANGED <<benchVars, extraVars, sessionVarsButToast>>

\* The insert reported no error: success toast, form reset, finally.
JobCompletes ==
  /\ job.pc = "insert"
  /\ lastToast' = IF job.kind = "upload"
                  THEN "Photo encrypted and uploaded successfully!"
                  ELSE "Version saved successfully!"
  /\ form' = IF job.kind = "upload" THEN [file |-> NoFile, title |-> << >>] ELSE form
  /\ job' = NoJob
  /\ UNCHANGED <<benchVars, ivVars, galleryVars, versionVars, sessionVarsButToast>>

AppNext ==
  \/ Mount
  \/ \E t \in SetupSlots, passphrase \in TypedPassphrases : HandleSubmit(t, passphrase)
  \/ \E t \in SetupSlots : SetupGetUser(t)
  \/ \E t \in SetupSlots : SetupSucceeds(t)
  \/ \E t \in SetupSlots : SetupStorageThrows(t)
  \/ \E t \in SetupSlots : SetupDeriveRejects(t)
  \/ ClearEncryption
  \/ \E user \in Users : SignIn(user)
  \/ HandleSignOut
  \/ SessionEnds
  \/ Reload

\* The session: passphrase submissions, also several in flight, with sign-in,
\* sign-out, clearEncryption and reloads.
AppSpec == AppInit /\ [][AppNext]_vars

\* The whole application with one setupEncryption call in flight at a time:
\* the session, handleUpload and saveVersion.
StoreNext ==
  \/ Mount
  \/ \E passphrase \in TypedPassphrases : HandleSubmit(1, passphrase)
  \/ SetupGetUser(1)
  \/ SetupSucceeds(1)
  \/ SetupStorageThrows(1)
  \/ SetupDeriveRejects(1)
  \/ ClearEncryption
  \/ \E user \in Users : SignIn(user)
  \/ HandleSignOut
  \/ SessionEnds
  \/ Reload
  \/ \E selected \in Files \cup {NoFile}, title \in Titles : HandleUpload(selected, title)
  \/ \E canvas \in Files \cup {NoFile} : SaveVersion(canvas)
  \/ \E iv \in RandomIvs : JobEncryptsAndPuts(iv)
  \/ JobInserts
  \/ JobStoreFails
  \/ JobCompletes

StoreSpec == AppInit /\ [][StoreNext]_vars

(***************************************************************************)
(* A caller that encrypts file after file with one key                     *)
(***************************************************************************)
\* encryptFile(file, key) once more with the key of slot 1; random is what
\* crypto.getRandomValues(new Uint8Array(12)) returns in this call.
EncryptNext(fileData, random) ==
  /\ keyOf[1].derived
  /\ ivCalls < MaxEncryptions
  /\ ivCalls' = ivCalls + 1
  /\ drawn' = random
  /\ usedIvs' = IF ivCalls = 0 THEN {} ELSE usedIvs \cup {enc.iv}
  /\ file' = fileData
  /\ enc' = encryptFile(fileData, keyOf[1].key, random)
  /\ UNCHANGED <<appVars, galleryVars, versionVars, form, keyOf, derivations, blob,
                 blobSrc, packArgs, ext, dec, decArgs>>

IvNext ==
  \/ \E email \in Identities, passphrase \in Passphrases : DeriveKey(1, email, passphrase)
  \/ \E fileData \in Plaintexts, random \in RandomIvs : EncryptNext(fileData, random)

IvSpec == Init /\ [][IvNext]_vars

(***************************************************************************)
(* Direct callers of deriveKey                                             *)
(***************************************************************************)
\* Email arguments of a direct call: deriveKey takes any string, "" included.
CallerIdentities == Identities \cup {<< >>}

CallerPassphrases == Passphrases \cup {PassphraseOfLength(MinPassphraseLength)}

DirectNext ==
  \E slot \in Slots, email \in CallerIdentities, passphrase \in CallerPassphrases :
    DeriveKey(slot, email, passphrase)

DirectSpec == Init /\ [][DirectNext]_vars

(***************************************************************************)
(* Properties of the application                                           *)
(***************************************************************************)
InFlight(t) == setup[t].pc # "idle"

\* C11: in every reachable state, the states between the steps of
\* setupEncryption and around clearEncryption included, isEncryptionReady is
\* true exactly when a key is held.
ReadyIffKey == isEncryptionReady <=> encryptionKey # NullKey

\* A key is held while another setupEncryption call is between its steps.
ReadyIffKeyWitness ==
  /\ isEncryptionReady
  /\ encryptionKey # NullKey
  /\ \E t \in SetupSlots : setup[t].pc = "derive"

\* C12: when handleSignOut has completed no key is held and readiness is
\* false; whoever signs in next in the same page session does not get a key
\* that was derived for another identity.
SignOutDropsKey ==
  [][/\ HandleSignOut => (encryptionKey' = NullKey /\ ~isEncryptionReady')
     /\ \A user \in Users :
          SignIn(user) => (encryptionKey' = NullKey \/ keyFrom'.email = user.email)]_vars

\* C13: clearEncryption, in any state, leaves no key and readiness false, and
\* from then on a key appears only by a passphrase submitted after the call.
ClearLocksSession ==
  [][/\ ClearEncryption => (encryptionKey' = NullKey /\ ~isEncryptionReady')
     /\ (encryptionKey = NullKey /\ encryptionKey' # NullKey)
          => \E t \in SetupSlots :
               setup[t].pc = "derive" /\ setup'[t].pc = "idle" /\ setup[t].afterClear]_vars

\* A step in which a setupEncryption call fails.
SetupFails(t) ==
  \/ SetupGetUser(t) /\ authUser.email = << >>
  \/ SetupDeriveRejects(t)
  \/ SetupStorageThrows(t)

\* C14: when a setupEncryption call fails, afterwards no key is held,
\* readiness is false, the call has not written the flag, and an error toast
\* was raised.
FailedSetupLocks ==
  [][(\E t \in SetupSlots : SetupFails(t))
       => /\ encryptionKey' = NullKey
          /\ ~isEncryptionReady'
          /\ localStorage' = localStorage
          /\ lastToast' = "Failed to set up encryption"]_vars

\* C15: no key is ever derived from an absent or empty identity, whether
\* deriveKey is reached through setupEncryption or called directly: such a
\* call fails and yields no key.
NoKeyFromAbsentIdentity ==
  /\ \A s \in Slots :
       (keyOf[s].derived /\ keyOf[s].email = << >>) => keyOf[s].key = NullKey
  /\ encryptionKey # NullKey => keyFrom.email # << >>

\* C16: a passphrase shorter than 8 characters is rejected before getUser and
\* deriveKey are called: no call in flight carries one, and the key held is
\* never one derived from one.
ShortPassphraseRejected ==
  /\ \A t \in SetupSlots : InFlight(t) => Len(setup[t].passphrase) >= MinPassphraseLength
  /\ encryptionKey # NullKey => Len(keyFrom.passphrase) >= MinPassphraseLength
  /\ \A user \in Users, passphrase \in TypedPassphrases :
       Len(passphrase) < MinPassphraseLength
         => encryptionKey # deriveKey(user.email, passphrase)

\* A short passphrase was submitted and turned down: nothing is in flight.
ShortPassphraseRejectedWitness ==
  /\ lastToast = "Passphrase must be at least 8 characters"
  /\ \A t \in SetupSlots : ~InFlight(t)
  /\ encryptionKey = NullKey

FlagIsNotReadiness ==
  (getItem(localStorage, EnabledFlag.name) = EnabledFlag.value /\ ~supplied)
    => /\ ~isEncryptionReady
       /\ encryptionKey = NullKey
       /\ View(authUser, isEncryptionReady) # "gallery"

\* A signed-in user on a freshly mounted page with the flag set sees the prompt.
FlagIsNotReadinessWitness ==
  /\ providerMounted
  /\ EnabledFlag \in localStorage
  /\ ~supplied
  /\ View(authUser, isEncryptionReady) = "setup"

\* The passphrases and key bits the page holds in memory.
Secrets ==
  {x \in {setup[t].passphrase : t \in SetupSlots}
         \cup {keyFrom.passphrase, encryptionKey.bits, job.key.bits} : x # << >>}

\* The metadata a record may carry: what was typed into the form, or a file name.
FormMetadata == Titles \cup {f.name : f \in Files}

SessionKeys ==
  {deriveKey(user.email, passphrase) : user \in Users, passphrase \in TypedPassphrases}

\* C20: handleUpload and saveVersion hand an object to the store only with a
\* key in hand, the session key they were started with, and the object is
\* createEncryptedBlob of what encryptFile returns for the file under that key,
\* never the bytes of the file.
EncryptedBeforeLeaving ==
  /\ job.pc \in {"getUser", "put"}
       => /\ job.key # NullKey
          /\ job.key \in SessionKeys
  /\ job.pc = "put"
       => LET encrypted == encryptFile(job.file.bytes, job.key, job.iv)
          IN  /\ encrypted.ok
              /\ job.object = createEncryptedBlob(encrypted.encryptedData, encrypted.iv)
              /\ job.object # job.file.bytes

\* saveVersion has handed its object to the store.
EncryptedBeforeLeavingWitness ==
  /\ job.kind = "version"
  /\ job.pc = "put"
  /\ Len(job.object) = IvLength + Len(job.file.bytes) + TagLength

(***************************************************************************)
(* The gallery: PhotoGallery                                               *)
(*                                                                         *)
(* A function of a component reads the state of the render it was created  *)
(* in.  fetchPhotos and the decryptPhoto it calls after its awaits read    *)
(* decryptedImages and decrypting as they were when fetchPhotos was        *)
(* called; the realtime subscription, set up by an effect with no          *)
(* dependencies, calls the fetchPhotos of the first render, which sees     *)
(* them empty.  State updates are functional (prev => ...) and apply to    *)
(* the state of the moment.                                                *)
(***************************************************************************)
\* The file behind photo id.
PhotoFile(id) == [k \in 1..id |-> (16 * id + k) % ByteMod]

\* The key of the session the gallery runs in.
GalleryUser == CHOOSE user \in Users : user.id = 1

GalleryPassphrase == PassphraseOfLength(MinPassphraseLength)

GalleryKey == deriveKey(GalleryUser.email, GalleryPassphrase)

\* What handleUpload stored for photo id.
UploadedObject(id) ==
  encryptedBlobOf(PhotoFile(id), GalleryKey,
                  [k \in 1..IvLength |-> (id * k + 7) % ByteMod]).blob

\* The same with its last byte changed.
DamagedObject(id) ==
  LET good == UploadedObject(id)
  IN  [k \in 1..Len(good) |-> IF k = Len(good) THEN (good[k] + 1) % ByteMod ELSE good[k]]

\* What the store may hold at the path of photo id.
StoredChoices(id) == {UploadedObject(id), DamagedObject(id), Ramp(IvLength - 1)}

\* decryptPhoto between fetch and setDecryptedImages: extractFromBlob, decryptData.
decryptFetched(blobBytes, key) ==
  LET parts == extractFromBlob(blobBytes)
  IN  decryptData(parts.encryptedData, parts.iv, key)

\* Faulty variant: the map is rebuilt from the empty map of the first render.
cachePutOverwrites(images, id, plain) ==
  [j \in PhotoIds |-> IF j = id THEN [has |-> TRUE, plain |-> plain] ELSE NoHandle]

\* setDecryptedImages(prev => new Map(prev).set(photo.id, objectUrl)).
cachePut(images, id, plain) == [images EXCEPT ![id] = [has |-> TRUE, plain |-> plain]]

\* Faulty variant: what decryptData yielded is cached whether or not it failed.
cacheAfterAlways(images, id, result) == cachePut(images, id, result.data)

\* decryptedImages after a decryptPhoto call ended with result.
cacheAfter(images, id, result) ==
  IF result.ok THEN cachePut(images, id, result.data) ELSE images

Cached(images) == {id \in PhotoIds : images[id].has}

FreeSlots(calls) == {t \in TaskSlots : calls[t].pc = "idle"}

RECURSIVE Launch(_, _)
\* decryptPhoto past its guard for every id of ids: one more call in flight each.
Launch(calls, ids) ==
  IF ids = {} THEN calls
  ELSE LET id == CHOOSE i \in ids : \A j \in ids : i <= j
           t == CHOOSE u \in FreeSlots(calls) : \A v \in FreeSlots(calls) : u <= v
       IN  Launch([calls EXCEPT ![t] = [pc |-> "fetch", id |-> id]], ids \ {id})

\* The ids of ids for which decryptPhoto passes its guard, in a closure that
\* sees seenCached as the keys of decryptedImages and seenDecrypting as decrypting.
passGuard(ids, seenCached, seenDecrypting) ==
  {id \in ids : id \notin seenCached /\ id \notin seenDecrypting}

\* GalleryUser has signed in and set encryption up; nothing else has happened.
UnlockedSession ==
  /\ BenchInit
  /\ encryptionKey = GalleryKey
  /\ isEncryptionReady = TRUE
  /\ keyFrom = [email |-> GalleryUser.email, passphrase |-> GalleryPassphrase]
  /\ localStorage = {EnabledFlag}
  /\ providerMounted = TRUE
  /\ authUser = GalleryUser
  /\ loading = FALSE
  /\ setup = [t \in SetupSlots |-> IdleSetup]
  /\ supplied = TRUE
  /\ lastToast = "Encryption enabled"
  /\ job = NoJob

\* The gallery has mounted in an unlocked session: its first fetchPhotos is in
\* flight.  The stores hold what earlier sessions left.
GalleryInit ==
  /\ UnlockedSession
  /\ IvAtRest
  /\ VersionAtRest
  /\ FormAtRest
  /\ photoRows \in SUBSET PhotoIds
  /\ objects \in [PhotoIds -> UNION {StoredChoices(id) : id \in PhotoIds} \cup {<< >>}]
  /\ \A id \in PhotoIds :
       objects[id] \in IF id \in photoRows THEN StoredChoices(id) ELSE {<< >>}
  /\ photos = {}
  /\ decryptedImages = [id \in PhotoIds |-> NoHandle]
  /\ decrypting = {}
  /\ tasks = [t \in TaskSlots |-> IdleTask]
  /\ loads = [l \in LoadSlots |->
                IF l = 1 THEN [pc |-> "select", seenCached |-> {}, seenDecrypting |-> {}]
                ELSE NoLoad]
  /\ galleryLoading = TRUE
  /\ selectedPhoto = 0
  /\ deletion = NoDeletion

FreeLoads == {l \in LoadSlots : loads[l].pc = "idle"}

\* fetchPhotos is called with a closure that sees seenCached and seenDecrypting.
CallFetchPhotos(seenCached, seenDecrypting) ==
  /\ FreeLoads # {}
  /\ LET l == CHOOSE k \in FreeLoads : \A j \in FreeLoads : k <= j
     IN  loads' = [loads EXCEPT ![l] = [pc |-> "select", seenCached |-> seenCached,
                                        seenDecrypting |-> seenDecrypting]]

\* A change of the photos table is announced: the subscription calls the
\* fetchPhotos of the first render.
RealtimeEvent ==
  /\ CallFetchPhotos({}, {})
  /\ UNCHANGED <<aroundGallery, lastToast, photoRows, objects, photos, decryptedImages,
                 decrypting, tasks, galleryLoading, selectedPhoto, deletion>>

\* refreshTrigger changes: the effect calls the fetchPhotos of this render.
RefreshTriggered ==
  /\ CallFetchPhotos(Cached(decryptedImages), decrypting)
  /\ UNCHANGED <<aroundGallery, lastToast, photoRows, objects, photos, decryptedImages,
                 decrypting, tasks, galleryLoading, selectedPhoto, deletion>>

\* fetchPhotos call l after its awaits, the select having returned the user's
\* rows: setPhotos, decryptPhoto for each row in the closure of the call; then
\* the effect on [encryptionKey, photos] of the render that follows, which
\* calls decryptPhoto for each photo in the closure of that render.
FetchPhotosEnds(l) ==
  /\ loads[l].pc = "select"
  /\ authUser # NoUser
  /\ LET first == passGuard(photoRows, loads[l].seenCached, loads[l].seenDecrypting)
         second == passGuard(photoRows, Cached(decryptedImages), decrypting \cup first)
     IN  /\ Cardinality(first) + Cardinality(second) <= Cardinality(FreeSlots(tasks))
         /\ tasks' = Launch(Launch(tasks, first), second)
         /\ decrypting' = decrypting \cup first \cup second
  /\ photos' = photoRows
  /\ galleryLoading' = FALSE
  /\ loads' = [loads EXCEPT ![l] = NoLoad]
  /\ UNCHANGED <<aroundGallery, lastToast, photoRows, objects, decryptedImages,
                 selectedPhoto, deletion>>

\* fetchPhotos call l when getUser returns no user, or when the select reports
\* an error.
FetchPhotosFails(l) ==
  /\ loads[l].pc = "select"
  /\ lastToast' = IF authUser = NoUser THEN lastToast ELSE "Failed to load photos"
  /\ galleryLoading' = FALSE
  /\ loads' = [loads EXCEPT ![l] = NoLoad]
  /\ UNCHANGED <<aroundGallery, photoRows, objects, photos, decryptedImages, decrypting,
                 tasks, selectedPhoto, deletion>>

\* decryptFetched under the key of the session, of whatever the store may hold.
UnderGalleryKey ==
  [id \in PhotoIds |->
     [held \in StoredChoices(id) \cup {<< >>} |-> decryptFetched(held, GalleryKey)]]

\* What the awaits of decryptPhoto call t yield: fetch rejects, or the bytes at
\* the photo's url go through extractFromBlob and decryptData.
DecryptResult(t, fetched) ==
  IF ~fetched THEN Failure("TypeError")
  ELSE IF encryptionKey = GalleryKey THEN UnderGalleryKey[tasks[t].id][objects[tasks[t].id]]
  ELSE decryptFetched(objects[tasks[t].id], encryptionKey)

\* decryptPhoto call t after its awaits: setDecryptedImages on success, the
\* toast in the catch on failure, and the finally.
DecryptPhotoEnds(t, fetched) ==
  /\ tasks[t].pc = "fetch"
  /\ LET result == DecryptResult(t, fetched)
     IN  /\ decryptedImages' = cacheAfter(decryptedImages, tasks[t].id, result)
         /\ lastToast' = IF result.ok THEN lastToast ELSE "Failed to decrypt photo"
  /\ decrypting' = decrypting \ {tasks[t].id}
  /\ tasks' = [tasks EXCEPT ![t] = IdleTask]
  /\ UNCHANGED <<aroundGallery, photoRows, objects, photos, loads, galleryLoading,
                 selectedPhoto, deletion>>

\* A card is clicked.
SelectPhoto(id) ==
  /\ selectedPhoto = 0
  /\ id \in photos
  /\ selectedPhoto' = id
  /\ UNCHANGED <<aroundGallery, lastToast, photoRows, objects, photos, decryptedImages,
                 decrypting, tasks, loads, galleryLoading, deletion>>

\* The dialog is closed.
CloseDialog ==
  /\ selectedPhoto # 0
  /\ selectedPhoto' = 0
  /\ UNCHANGED <<aroundGallery, lastToast, photoRows, objects, photos, decryptedImages,
                 decrypting, tasks, loads, galleryLoading, deletion>>

\* handleDelete up to its first await: the button shows once the photo is
\* decrypted and is disabled while deleting.
HandleDelete ==
  /\ selectedPhoto # 0
  /\ decryptedImages[selectedPhoto].has
  /\ deletion.pc = "idle"
  /\ deletion' = [pc |-> "remove", id |-> selectedPhoto,
                  seenCached |-> Cached(decryptedImages), seenDecrypting |-> decrypting]
  /\ UNCHANGED <<aroundGallery, lastToast, photoRows, objects, photos, decryptedImages,
                 decrypting, tasks, loads, galleryLoading, selectedPhoto>>

\* storage.remove([selectedPhoto.storage_path]) reports no error.
DeleteRemoveOk ==
  /\ deletion.pc = "remove"
  /\ objects' = [objects EXCEPT ![deletion.id] = << >>]
  /\ deletion' = [deletion EXCEPT !.pc = "row"]
  /\ UNCHANGED <<aroundGallery, lastToast, photoRows, photos, decryptedImages, decrypting,
                 tasks, loads, galleryLoading, selectedPhoto>>

\* Faulty variant: storageError is ignored and the record is deleted.
DeleteRemoveFailsDeletesRow ==
  /\ deletion.pc = "remove"
  /\ photoRows' = photoRows \ {deletion.id}
  /\ lastToast' = "Photo deleted"
  /\ deletion' = NoDeletion
  /\ UNCHANGED <<aroundGallery, objects, photos, decryptedImages, decrypting,
                 tasks, loads, galleryLoading, selectedPhoto>>

\* storage.remove reports an error: the catch and the finally.
DeleteRemoveFails ==
  /\ deletion.pc = "remove"
  /\ lastToast' = "Failed to delete photo"
  /\ deletion' = NoDeletion
  /\ UNCHANGED <<aroundGallery, photoRows, objects, photos, decryptedImages, decrypting,
                 tasks, loads, galleryLoading, selectedPhoto>>

\* The delete on photos reports no error: toast, setSelectedPhoto(null),
\* fetchPhotos() of the render handleDelete was created in, and the finally.
DeleteRowOk ==
  /\ deletion.pc = "row"
  /\ photoRows' = photoRows \ {deletion.id}
  /\ lastToast' = "Photo deleted"
  /\ selectedPhoto' = 0
  /\ CallFetchPhotos(deletion.seenCached, deletion.seenDecrypting)
  /\ deletion' = NoDeletion
  /\ UNCHANGED <<aroundGallery, objects, photos, decryptedImages, decrypting, tasks,
                 galleryLoading>>

\* The delete on photos reports an error: the catch and the finally.
DeleteRowFails ==
  /\ deletion.pc = "row"
  /\ lastToast' = "Failed to delete photo"
  /\ deletion' = NoDeletion
  /\ UNCHANGED <<aroundGallery, photoRows, objects, photos, decryptedImages, decrypting,
                 tasks, loads, galleryLoading, selectedPhoto>>

GalleryNext ==
  \/ RealtimeEvent
  \/ RefreshTriggered
  \/ \E l \in LoadSlots : FetchPhotosEnds(l)
  \/ \E l \in LoadSlots : FetchPhotosFails(l)
  \/ \E t \in TaskSlots, fetched \in BOOLEAN : DecryptPhotoEnds(t, fetched)

GallerySpec == GalleryInit /\ [][GalleryNext]_vars

\* The gallery with a user who opens photos and deletes them.
DeleteNext ==
  \/ \E l \in LoadSlots : FetchPhotosEnds(l)
  \/ \E l \in LoadSlots : FetchPhotosFails(l)
  \/ \E t \in TaskSlots, fetched \in BOOLEAN : DecryptPhotoEnds(t, fetched)
  \/ \E id \in PhotoIds : SelectPhoto(id)
  \/ CloseDialog
  \/ HandleDelete
  \/ DeleteRemoveOk
  \/ DeleteRemoveFails
  \/ DeleteRowOk
  \/ DeleteRowFails

DeleteSpec == GalleryInit /\ [][DeleteNext]_vars

(***************************************************************************)
(* The editor and the version history: ImageEditor, VersionHistory         *)
(*                                                                         *)
(* Tab 1 is the editor whose filter and sliders are followed; the other    *)
(* tabs save what an editor shows as it opens.  What saveVersion encrypts  *)
(* and stores is followed with handleUpload above; here the version        *)
(* records and the paths of the version objects are.                       *)
(***************************************************************************)
\* Slider max of exposure, contrast, saturation, highlights, shadows, vibrance.
SliderMax == 100

\* Slider max of temperature and tint.
NarrowSliderMax == 50

\* The sliders that are moved.
MovedKeys == {"exposure", "temperature"}

\* Where a slider is left: at its min, at 0, at its max.
SliderValues(key) ==
  LET max == IF key \in {"temperature", "tint"} THEN NarrowSliderMax ELSE SliderMax
  IN  {0 - max, 0, max}

RECURSIVE Digits(_)
\* The decimal digits of n >= 0, as JSON.stringify writes them.
Digits(n) == IF n < 10 THEN <<n>> ELSE Append(Digits(n \div 10), n % 10)

RECURSIVE FromDigits(_)
\* The number a run of decimal digits is read as.
FromDigits(digits) ==
  IF Len(digits) = 0 THEN 0
  ELSE 10 * FromDigits(SubSeq(digits, 1, Len(digits) - 1)) + digits[Len(digits)]

JsonString(text) == [type |-> "string", text |-> text, negative |-> FALSE, digits |-> << >>]

JsonNumber(n) ==
  [type |-> "number", text |-> "", negative |-> n < 0,
   digits |-> Digits(IF n < 0 THEN 0 - n ELSE n)]

\* The number a JSON number is parsed to.
NumberOf(json) == IF json.negative THEN 0 - FromDigits(json.digits) ELSE FromDigits(json.digits)

\* A parsed JSON value in a condition: null, "" and 0 are falsy.
Truthy(json) ==
  CASE json.type = "null" -> FALSE
    [] json.type = "string" -> json.text # ""
    [] json.type = "number" -> NumberOf(json) # 0

\* edit_metadata: {filter: selectedFilter, adjustments} as it is sent and stored.
editMetadata(filter, sliders) ==
  [present |-> TRUE,
   filter |-> JsonString(filter),
   adjustments |-> [key \in AdjustmentKeys |-> JsonNumber(sliders[key])]]

\* Faulty variant: each slider is restored only if its saved value is truthy.
restoreVersionSkipsZero(version, filterNow, slidersNow) ==
  LET metadata == version.edit_metadata
  IN  IF metadata.present
      THEN [selectedFilter |-> IF Truthy(metadata.filter) THEN metadata.filter.text
                               ELSE filterNow,
            adjustments |-> [key \in AdjustmentKeys |->
                               IF Truthy(metadata.adjustments[key])
                               THEN NumberOf(metadata.adjustments[key])
                               ELSE slidersNow[key]],
            restored |-> TRUE]
      ELSE [selectedFilter |-> filterNow, adjustments |-> slidersNow, restored |-> FALSE]

\* restoreVersion: what selectedFilter and adjustments become.
restoreVersion(version, filterNow, slidersNow) ==
  LET metadata == version.edit_metadata
  IN  IF metadata.present
      THEN [selectedFilter |-> IF Truthy(metadata.filter) THEN metadata.filter.text
                               ELSE filterNow,
            adjustments |-> [key \in AdjustmentKeys |-> NumberOf(metadata.adjustments[key])],
            restored |-> TRUE]
      ELSE [selectedFilter |-> filterNow, adjustments |-> slidersNow, restored |-> FALSE]

\* `${user.id}/versions/${photoId}-v${nextVersionNumber}-${Date.now()}.enc`
versionPath(userId, number, stamp) == <<userId, number, stamp>>

\* getPublicUrl(storagePath).data.publicUrl: the bucket's address, then the path.
publicUrl(path) == <<0>> \o path

\* The largest version_number among records, as the select ordered by
\* version_number descending with limit 1 returns it.
MaxVersionNumber(records) ==
  CHOOSE n \in {r.version_number : r \in records} :
    \A r \in records : r.version_number <= n

\* nextVersionNumber, from what the select returned.
nextVersionNumber(existingVersions) ==
  IF existingVersions # {} THEN MaxVersionNumber(existingVersions) + 1 ELSE 1

\* The editor of the photo is open in an unlocked session.
VersionInit ==
  /\ UnlockedSession
  /\ ExtraAtRest

\* A filter button is clicked.
SelectFilter(filter) ==
  /\ edits < MaxEdits
  /\ edits' = edits + 1
  /\ selectedFilter' = filter
  /\ UNCHANGED <<aroundVersions, lastToast, adjustments, saves, versions, versionObjects,
                 versionSeq, listed, removal>>

\* updateAdjustment: a slider is moved.
UpdateAdjustment(key, value) ==
  /\ edits < MaxEdits
  /\ edits' = edits + 1
  /\ adjustments' = [adjustments EXCEPT ![key] = value]
  /\ UNCHANGED <<aroundVersions, lastToast, selectedFilter, saves, versions,
                 versionObjects, versionSeq, listed, removal>>

\* handleReset
HandleReset ==
  /\ edits < MaxEdits
  /\ edits' = edits + 1
  /\ selectedFilter' = "none"
  /\ adjustments' = NoAdjustments
  /\ UNCHANGED <<aroundVersions, lastToast, saves, versions, versionObjects, versionSeq,
                 listed, removal>>

SavesInFlight == {s \in SaveSlots : saves[s].pc # "idle"}

\* saveVersion in tab s up to its first await: the call keeps the filter and
\* the sliders of the render it was created in.  The button is disabled while
\* isSaving.
SaveVersionStarts(s) ==
  /\ saves[s].pc = "idle"
  /\ versionSeq < MaxVersions
  /\ versionSeq' = versionSeq + 1
  /\ IF encryptionKey = NullKey
     THEN lastToast' = "Unable to save version" /\ UNCHANGED saves
     ELSE /\ saves' = [saves EXCEPT ![s] =
                         [NoSave EXCEPT !.pc = "select",
                                        !.call = versionSeq + 1,
                                        !.filter = IF s = 1 THEN selectedFilter ELSE "none",
                                        !.adjustments = IF s = 1 THEN adjustments
                                                        ELSE NoAdjustments]]
          /\ UNCHANGED lastToast
  /\ UNCHANGED <<aroundVersions, selectedFilter, adjustments, edits, versions,
                 versionObjects, listed, removal>>

\* The catch and the finally of saveVersion.
SaveThrows(s) ==
  /\ lastToast' = "Failed to save version"
  /\ saves' = [saves EXCEPT ![s] = NoSave]

\* saveVersion in tab s after getUser and the select of the largest
\* version_number; answered is whether the select returned data (its error is
\* not looked at).
SaveSelectReturns(s, answered) ==
  /\ saves[s].pc = "select"
  /\ IF authUser = NoUser
     THEN SaveThrows(s)
     ELSE /\ saves' = [saves EXCEPT ![s].pc = "upload",
                                    ![s].number = IF answered THEN nextVersionNumber(versions)
                                                  ELSE 1]
          /\ UNCHANGED lastToast
  /\ UNCHANGED <<aroundVersions, selectedFilter, adjustments, edits, versions,
                 versionObjects, versionSeq, listed, removal>>

\* saveVersion in tab s after toBlob, encryptFile and the upload; stamp is
\* Date.now().  The store refuses a path that is taken.
SaveUploads(s, stamp, stored) ==
  /\ saves[s].pc = "upload"
  /\ LET storagePath == versionPath(authUser.id, saves[s].number, stamp)
     IN  IF authUser = NoUser \/ ~stored \/ storagePath \in versionObjects
         THEN SaveThrows(s) /\ UNCHANGED versionObjects
         ELSE /\ versionObjects' = versionObjects \cup {storagePath}
              /\ saves' = [saves EXCEPT ![s].pc = "insert", ![s].path = storagePath]
              /\ UNCHANGED lastToast
  /\ UNCHANGED <<aroundVersions, selectedFilter, adjustments, edits, versions, versionSeq,
                 listed, removal>>

\* saveVersion in tab s after the insert into photo_versions.
SaveInserts(s, inserted) ==
  /\ saves[s].pc = "insert"
  /\ IF inserted
     THEN /\ versions' = versions \cup
                {[id |-> saves[s].call,
                  version_number |-> saves[s].number,
                  storage_path |-> saves[s].path,
                  url |-> publicUrl(saves[s].path),
                  edit_metadata |-> editMetadata(saves[s].filter, saves[s].adjustments),
                  shown |-> [filter |-> saves[s].filter,
                             adjustments |-> saves[s].adjustments]]}
          /\ lastToast' = "Version saved successfully!"
          /\ saves' = [saves EXCEPT ![s] = NoSave]
     ELSE SaveThrows(s) /\ UNCHANGED versions
  /\ UNCHANGED <<aroundVersions, selectedFilter, adjustments, edits, versionObjects,
                 versionSeq, listed, removal>>

\* fetchVersions, on mount of the history and after a delete: the select and
\* setVersions, or the toast of the catch.
FetchVersions(answered) ==
  /\ IF answered
     THEN listed' = versions /\ UNCHANGED lastToast
     ELSE lastToast' = "Failed to load version history" /\ UNCHANGED listed
  /\ UNCHANGED <<aroundVersions, selectedFilter, adjustments, edits, saves, versions,
                 versionObjects, versionSeq, removal>>

\* The restore button of a listed version: onRestore(version).
RestoreVersion(version) ==
  /\ version \in listed
  /\ LET after == restoreVersion(version, selectedFilter, adjustments)
     IN  /\ selectedFilter' = after.selectedFilter
         /\ adjustments' = after.adjustments
         /\ lastToast' = IF after.restored THEN "Version restored!" ELSE lastToast
  /\ UNCHANGED <<aroundVersions, edits, saves, versions, versionObjects, versionSeq,
                 listed, removal>>

\* What the delete button of a listed version hands to handleDelete as
\* storagePath.
deleteArgument(version) == version.url

\* VersionHistory.handleDelete up to its first await.
VersionHandleDelete(version) ==
  /\ version \in listed
  /\ removal.pc = "idle"
  /\ removal' = [pc |-> "remove", version |-> version]
  /\ UNCHANGED <<aroundVersions, lastToast, selectedFilter, adjustments, edits, saves,
                 versions, versionObjects, versionSeq, listed>>

\* storage.remove([storagePath]) has returned; a path that holds nothing is no
\* error.
VersionRemoveReturns(removed) ==
  /\ removal.pc = "remove"
  /\ IF removed
     THEN /\ versionObjects' = versionObjects \ {deleteArgument(removal.version)}
          /\ removal' = [removal EXCEPT !.pc = "row"]
          /\ UNCHANGED lastToast
     ELSE /\ lastToast' = "Failed to delete version"
          /\ removal' = NoRemoval
          /\ UNCHANGED versionObjects
  /\ UNCHANGED <<aroundVersions, selectedFilter, adjustments, edits, saves, versions,
                 versionSeq, listed>>

\* The delete on photo_versions has returned.
VersionRowReturns(deleted) ==
  /\ removal.pc = "row"
  /\ IF deleted
     THEN /\ versions' = {r \in versions : r.id # removal.version.id}
          /\ lastToast' = "Version deleted"
     ELSE /\ lastToast' = "Failed to delete version"
          /\ UNCHANGED versions
  /\ removal' = NoRemoval
  /\ UNCHANGED <<aroundVersions, selectedFilter, adjustments, edits, saves,
                 versionObjects, versionSeq, listed>>

\* One editor: edit, save, list, restore.  Its saves follow one another, and
\* its clock has advanced from one to the next.
EditNext ==
  \/ \E filter \in Filters : SelectFilter(filter)
  \/ \E key \in MovedKeys : \E value \in SliderValues(key) : UpdateAdjustment(key, value)
  \/ HandleReset
  \/ SaveVersionStarts(1)
  \/ \E answered \in BOOLEAN : SaveSelectReturns(1, answered)
  \/ \E stored \in BOOLEAN : SaveUploads(1, saves[1].call, stored)
  \/ \E inserted \in BOOLEAN : SaveInserts(1, inserted)
  \/ \E answered \in BOOLEAN : FetchVersions(answered)
  \/ \E version \in listed : RestoreVersion(version)

EditSpec == VersionInit /\ [][EditNext]_vars

\* Editors in several tabs: save, list, delete.
VersionNext ==
  \/ \E s \in SaveSlots : SaveVersionStarts(s)
  \/ \E s \in SaveSlots, answered \in BOOLEAN : SaveSelectReturns(s, answered)
  \/ \E s \in SaveSlots, stamp \in Stamps, stored \in BOOLEAN : SaveUploads(s, stamp, stored)
  \/ \E s \in SaveSlots, inserted \in BOOLEAN : SaveInserts(s, inserted)
  \/ \E answered \in BOOLEAN : FetchVersions(answered)
  \/ \E version \in listed : VersionHandleDelete(version)
  \/ \E removed \in BOOLEAN : VersionRemoveReturns(removed)
  \/ \E deleted \in BOOLEAN : VersionRowReturns(deleted)

VersionSpec == VersionInit /\ [][VersionNext]_vars

(***************************************************************************)
(* The upload form: PhotoUpload                                            *)
(***************************************************************************)
\* The upload dialog is open in an unlocked session.
UploadInit ==
  /\ UnlockedSession
  /\ ExtraAtRest

\* handleFileChange with an image file.
SelectFile(selected) ==
  /\ form' = [form EXCEPT !.file = selected]
  /\ UNCHANGED <<benchVars, appVars, ivVars, galleryVars, versionVars>>

\* The button on the preview: setFile(null).
ClearFile ==
  /\ form.file # NoFile
  /\ form' = [form EXCEPT !.file = NoFile]
  /\ UNCHANGED <<benchVars, appVars, ivVars, galleryVars, versionVars>>

\* The title field is typed in.
TypeTitle(title) ==
  /\ form' = [form EXCEPT !.title = title]
  /\ UNCHANGED <<benchVars, appVars, ivVars, galleryVars, versionVars>>

\* Faulty variant: the form is reset in the finally, whatever the outcome.
JobFileUnreadableResetsForm ==
  /\ job.kind = "upload"
  /\ job.pc = "getUser"
  /\ authUser # NoUser
  /\ JobThrows("Failed to upload photo")
  /\ form' = [file |-> NoFile, title |-> << >>]
  /\ UNCHANGED <<benchVars, ivVars, galleryVars, versionVars, sessionVarsButToast>>

\* handleUpload after getUser when encryptFile rejects: file.arrayBuffer()
\* cannot read the file.
JobFileUnreadable ==
  /\ job.kind = "upload"
  /\ job.pc = "getUser"
  /\ authUser # NoUser
  /\ JobThrows("Failed to upload photo")
  /\ UNCHANGED <<benchVars, extraVars, sessionVarsButToast>>

\* The form is filled in and submitted; the session may end meanwhile.
UploadNext ==
  \/ \E selected \in Files : SelectFile(selected)
  \/ ClearFile
  \/ \E title \in Titles : TypeTitle(title)
  \/ HandleUpload(form.file, form.title)
  \/ \E iv \in RandomIvs : JobEncryptsAndPuts(iv)
  \/ JobFileUnreadable
  \/ JobInserts
  \/ JobStoreFails
  \/ JobCompletes
  \/ SessionEnds

UploadSpec == UploadInit /\ [][UploadNext]_vars

(***************************************************************************)
(* Properties of repeated encryption, of the gallery and of the stores     *)
(***************************************************************************)
\* C21: over any sequence of encryptFile calls made with the same key, no call
\* returns an iv that an earlier call returned.
IvNeverRepeats == ivCalls > 0 => enc.iv \notin usedIvs

\* C21, amended: every encryptFile call succeeds with an iv of 12 bytes that is
\* exactly what crypto.getRandomValues returned in that call, so two calls
\* return the same iv only when the random source returns the same bytes twice.
IvDrawnEachCall ==
  ivCalls > 0 => /\ enc.ok
                 /\ Len(enc.iv) = IvLength
                 /\ enc.iv = drawn

\* Two calls under one key have returned different ivs.
IvDrawnEachCallWitness ==
  /\ ivCalls >= 2
  /\ usedIvs # {}
  /\ enc.iv \notin usedIvs

\* C22: a decryptPhoto call that fails (fetch, unpack or tag check) adds no
\* entry to decryptedImages and raises the toast, and leaves every other call
\* as it was; a call that reads what was uploaded caches the photo's own file
\* whatever became of the others.
FailedDecryptionIsLocal ==
  [][\A t \in TaskSlots, fetched \in BOOLEAN :
       DecryptPhotoEnds(t, fetched) =>
         /\ ~DecryptResult(t, fetched).ok =>
              /\ decryptedImages' = decryptedImages
              /\ lastToast' = "Failed to decrypt photo"
         /\ \A u \in TaskSlots \ {t} : tasks'[u] = tasks[u]
         /\ fetched /\ objects[tasks[t].id] = UploadedObject(tasks[t].id) =>
              decryptedImages'[tasks[t].id] =
                [has |-> TRUE, plain |-> PhotoFile(tasks[t].id)]]_vars

FailedDecryptionIsLocalWitness ==
  /\ objects[1] = DamagedObject(1)
  /\ 1 \in photos
  /\ \A t \in TaskSlots : tasks[t].pc = "idle"
  /\ ~decryptedImages[1].has
  /\ lastToast = "Failed to decrypt photo"
  /\ decryptedImages[2] = [has |-> TRUE, plain |-> PhotoFile(2)]

\* C23: once a decryptPhoto call has failed, its photo is neither in decrypting
\* nor in decryptedImages, so that a later call passes the guard.
FailureAllowsRetry ==
  [][\A t \in TaskSlots, fetched \in BOOLEAN :
       DecryptPhotoEnds(t, fetched) /\ ~DecryptResult(t, fetched).ok =>
         /\ tasks[t].id \notin decrypting'
         /\ ~decryptedImages'[tasks[t].id].has]_vars

\* C24: no step drops or changes an entry of decryptedImages, and a call that
\* succeeds leaves its photo mapped to the photo's own file: once all calls
\* have ended, every photo decrypted is cached, in whatever order they ended.
NoLostUpdates ==
  [][/\ \A id \in PhotoIds :
          decryptedImages[id].has => decryptedImages'[id] = decryptedImages[id]
     /\ \A t \in TaskSlots, fetched \in BOOLEAN :
          DecryptPhotoEnds(t, fetched) /\ DecryptResult(t, fetched).ok =>
            decryptedImages'[tasks[t].id] =
              [has |-> TRUE, plain |-> PhotoFile(tasks[t].id)]]_vars

NoLostUpdatesWitness ==
  /\ photos = PhotoIds
  /\ \A t \in TaskSlots : tasks[t].pc = "idle"
  /\ \A id \in PhotoIds : decryptedImages[id] = [has |-> TRUE, plain |-> PhotoFile(id)]

\* C26: a decryption in flight is the only one for its photo, and its photo is
\* not in decryptedImages.
NoSecondDecryption ==
  \A t \in TaskSlots :
    tasks[t].pc = "fetch" =>
      /\ ~decryptedImages[tasks[t].id].has
      /\ \A u \in TaskSlots \ {t} : tasks[u].pc = "fetch" => tasks[u].id # tasks[t].id

\* C30: the record of a photo is deleted only by handleDelete after the removal
\* of its object succeeded; a failed removal leaves the record and the
\* selection; every way out of handleDelete leaves deleting false.
DeleteRecordAfterObject ==
  [][/\ photoRows' # photoRows =>
          /\ deletion.pc = "row"
          /\ objects[deletion.id] = << >>
          /\ photoRows' = photoRows \ {deletion.id}
     /\ DeleteRemoveFails =>
          /\ photoRows' = photoRows
          /\ selectedPhoto' = selectedPhoto
          /\ deletion'.pc = "idle"
     /\ DeleteRowOk \/ DeleteRowFails => deletion'.pc = "idle"]_vars

DeleteRecordAfterObjectWitness ==
  /\ lastToast = "Failed to delete photo"
  /\ deletion.pc = "idle"
  /\ selectedPhoto # 0
  /\ selectedPhoto \in photoRows
  /\ objects[selectedPhoto] # << >>

\* C25: restoring a listed version sets selectedFilter and adjustments to what
\* the editor showed when that version was saved, for every filter, "none"
\* too, and every slider position, 0 too.
MetadataRoundTrips ==
  [][\A version \in listed :
       RestoreVersion(version) =>
         /\ selectedFilter' = version.shown.filter
         /\ adjustments' = version.shown.adjustments]_vars

MetadataRoundTripsWitness ==
  /\ lastToast = "Version restored!"
  /\ edits > 0
  /\ selectedFilter = "none"
  /\ adjustments = NoAdjustments
  /\ \E version \in listed :
       version.shown = [filter |-> "none", adjustments |-> NoAdjustments]

\* C27: no two records of the photo have the same version_number.
UniqueVersionNumbers ==
  \A r \in versions, q \in versions :
    r.id # q.id => r.version_number # q.version_number

\* C28: a record leaves photo_versions only in the step after the removal
\* returned without error, and then no object is left at its storage_path.
VersionDeleteRemovesObject ==
  [][\A r \in versions :
       r \notin versions' =>
         /\ removal.pc = "row"
         /\ r.storage_path \notin versionObjects']_vars

\* C29: a photos record is handed to the record store only after the storage
\* upload of the encrypted blob reported no error; when authentication,
\* encryption or the storage upload fails, handleUpload ends with no record
\* handed over, the form as it was, and uploading false.
UploadRecordAfterObject ==
  [][/\ job'.pc = "insert" /\ job.pc # "insert" =>
          /\ job.pc = "put"
          /\ job.object = encryptedBlobOf(job.file.bytes, job.key, job.iv).blob
     /\ job.kind = "upload" /\ job.pc \in {"getUser", "put"} /\ job'.pc \notin {"put", "insert"}
          /\ job' # job =>
          /\ job' = NoJob
          /\ form' = form
     /\ JobFileUnreadable \/ (JobStoreFails /\ job.kind = "upload" /\ job.pc = "put") =>
          /\ job' = NoJob
          /\ form' = form]_vars

UploadRecordAfterObjectWitness ==
  /\ lastToast \in {"Not authenticated", "Failed to upload photo"}
  /\ job = NoJob
  /\ form.file # NoFile
  /\ form.title # << >>

====
